---- MODULE Spec2Model ----
(***************************************************************************)
(* Model of check_rabbitmq_queues/check.py: one invocation of main(), from *)
(* dispatch_command(run) to the process exit.  The process is sequential;  *)
(* pc is the position of its single thread of control.                     *)
(*                                                                         *)
(* Text is modelled as a sequence of string pieces, so that formatting     *)
(* ('%s' % x, ' '.join) is computed and not assumed.                        *)
(***************************************************************************)
EXTENDS Integers, Sequences, FiniteSets, TLC

VARIABLES
    pc,           \* position: get_config, derive, get_client, check_lengths,
                  \*           loop, finally, decide, main_handler, exited
    pathExists,   \* os.path.exists(config_path)
    env,          \* os.environ, a function from the names that are set to values
    cfg,          \* what yaml.load returned: [mapping, data]
    vhost,        \* run's local vhost
    queues,       \* run's local queues: queue name -> thresholds mapping
    client,       \* run's local client: [built, url, username, password]
    stdout,       \* check_lengths' local stdout (the saved stream)
    temp_stdout,  \* check_lengths' local temp_stdout: unbound, open, closed
    sys_stdout,   \* the stream sys.stdout names: "stdout" or "devnull"
    remaining,    \* queues the for loop has not yet visited
    lengths,      \* stats.lengths
    errors,       \* stats.errors: [critical, warning], two lists
    observed,     \* what get_queue_depth did for each queue visited (history)
    pending,      \* the exception propagating, NoExc when none
    out,          \* lines written to the process's standard output
    err,          \* lines written to the process's standard error
    exitCode,     \* the process exit code, -1 while running
    crashed       \* the process ended by an uncaught exception

vars == <<pc, pathExists, env, cfg, vhost, queues, client, stdout, temp_stdout,
          sys_stdout, remaining, lengths, errors, observed, pending, out, err,
          exitCode, crashed>>

(***************************************************************************)
(* Bounds of the model.                                                    *)
(***************************************************************************)
MaxThreshold == 1
MaxDepth == 2

QueueNames == {"q1", "q2"}

(***************************************************************************)
(* Program constants.                                                      *)
(***************************************************************************)
DEFAULT_CONFIG == "/usr/local/etc/check_rabbitmq_queues.yml"
DEFAULT_USERNAME == "guest"
DEFAULT_PASSWORD == "guest"
DEFAULT_VHOST == "/"
DEFAULT_HOSTNAME == "localhost"
DEFAULT_PORT == 15672

EmptyMap == [k \in {} |-> 0]

(***************************************************************************)
(* Text.                                                                   *)
(***************************************************************************)
Digit(d) ==
    CASE d = 0 -> "0" [] d = 1 -> "1" [] d = 2 -> "2" [] d = 3 -> "3"
      [] d = 4 -> "4" [] d = 5 -> "5" [] d = 6 -> "6" [] d = 7 -> "7"
      [] d = 8 -> "8" [] d = 9 -> "9"

Digits == {"0", "1", "2", "3", "4", "5", "6", "7", "8", "9"}

DigitValue(c) == CHOOSE d \in 0..9 : Digit(d) = c

\* '%s' % n for an integer n >= 0: its decimal digits
RECURSIVE Str(_)
Str(n) == IF n < 10 THEN <<Digit(n)>> ELSE Str(n \div 10) \o <<Digit(n % 10)>>

\* A Python value that is an int or a str
IntVal(n) == [isInt |-> TRUE, num |-> n, text |-> <<>>]
StrVal(t) == [isInt |-> FALSE, num |-> 0, text |-> t]

\* '%s' % v
Format(v) == IF v.isInt THEN Str(v.num) ELSE v.text

(***************************************************************************)
(* Exceptions.                                                             *)
(***************************************************************************)
NoExc == [type |-> "None", msg |-> <<>>, status |-> 0, code |-> 0]
Exc(t, m) == [type |-> t, msg |-> m, status |-> 0, code |-> 0]
HTTPError(s) == [type |-> "HTTPError", msg |-> <<"HTTPError">>, status |-> s, code |-> 0]
SystemExit(c) == [type |-> "SystemExit", msg |-> Str(c), status |-> 0, code |-> c]

(***************************************************************************)
(* Dictionaries and the environment.                                       *)
(***************************************************************************)
\* d.get(key, default)
Get(d, key, default) == IF key \in DOMAIN d THEN d[key] ELSE default

\* os.getenv(name): [set, val]; set = FALSE is None
Getenv(name) ==
    IF name \in DOMAIN env THEN [set |-> TRUE, val |-> env[name]]
    ELSE [set |-> FALSE, val |-> ""]

\* Python truth of an os.getenv result: None and '' are false
Truthy(v) == v.set /\ v.val # ""

(***************************************************************************)
(* get_client.                                                             *)
(***************************************************************************)
\* A mutant of Credential: the config-file value wins over the environment
CredentialConfigFirst(from_env, c, key, default) ==
    IF key \in DOMAIN c THEN c[key]
    ELSE IF Truthy(from_env) THEN from_env.val ELSE default

\* username_from_env or cfg.get('username', DEFAULT_USERNAME)
Credential(from_env, c, key, default) ==
    IF Truthy(from_env) THEN from_env.val ELSE Get(c, key, default)

NoClient == [built |-> FALSE, url |-> <<>>, username |-> "", password |-> ""]

get_client(c) ==
    [built    |-> TRUE,
     url      |-> <<Get(c, "host", DEFAULT_HOSTNAME), ":">>
                      \o Str(Get(c, "port", DEFAULT_PORT)),
     username |-> Credential(Getenv("CHECK_RABBITMQ_QUEUES_USERNAME"),
                             c, "username", DEFAULT_USERNAME),
     password |-> Credential(Getenv("CHECK_RABBITMQ_QUEUES_PASSWORD"),
                             c, "password", DEFAULT_PASSWORD)]

(***************************************************************************)
(* check_lengths: the parts of one loop iteration.                         *)
(***************************************************************************)
\* A mutant of Handled: the except clause leaves KeyError out
HandledNoKeyError(e) == e.type \in {"NetworkError", "HTTPError"}

\* except (NetworkError, HTTPError, KeyError) as e
Handled(e) == e.type \in {"NetworkError", "HTTPError", "KeyError"}

\* A mutant of WarningText: the 404 and 401 texts exchanged
WarningTextSwapped(e) ==
    IF e.type = "NetworkError" THEN <<"Can not communicate with RabbitMQ.">>
    ELSE IF e.type = "KeyError" THEN <<"Cannot obtain queue data.">>
    ELSE IF e.status = 404 THEN <<"Unauthorized.">>
    ELSE IF e.status = 401 THEN <<"Queue not found.">>
    ELSE <<"Unhandled HTTP error, status: ">> \o Str(e.status)

\* the isinstance / e.status chain that selects the text of the warning
WarningText(e) ==
    IF e.type = "NetworkError" THEN <<"Can not communicate with RabbitMQ.">>
    ELSE IF e.type = "KeyError" THEN <<"Cannot obtain queue data.">>
    ELSE IF e.status = 404 THEN <<"Queue not found.">>
    ELSE IF e.status = 401 THEN <<"Unauthorized.">>
    ELSE <<"Unhandled HTTP error, status: ">> \o Str(e.status)

RECURSIVE ParseInt(_)
ParseInt(t) ==
    IF t = <<>> THEN 0
    ELSE ParseInt(SubSeq(t, 1, Len(t) - 1)) * 10 + DigitValue(t[Len(t)])

\* int(length): [exc, num]
ToInt(v) ==
    IF v.isInt THEN [exc |-> NoExc, num |-> v.num]
    ELSE IF v.text # <<>> /\ \A i \in 1..Len(v.text) : v.text[i] \in Digits
    THEN [exc |-> NoExc, num |-> ParseInt(v.text)]
    ELSE [exc |-> Exc("ValueError",
                      <<"invalid literal for int() with base 10: '">>
                          \o v.text \o <<"'">>),
          num |-> 0]

KeyErrorOf(key) == Exc("KeyError", <<"'", key, "'">>)

\* A mutant of Classify: a depth equal to the critical threshold is critical
ClassifyCriticalGE(length, thresholds) ==
    IF "critical" \notin DOMAIN thresholds
    THEN [exc |-> KeyErrorOf("critical"), bucket |-> "none"]
    ELSE IF length >= thresholds["critical"]
    THEN [exc |-> NoExc, bucket |-> "critical"]
    ELSE IF "warning" \notin DOMAIN thresholds
    THEN [exc |-> KeyErrorOf("warning"), bucket |-> "none"]
    ELSE IF length > thresholds["warning"]
    THEN [exc |-> NoExc, bucket |-> "warning"]
    ELSE [exc |-> NoExc, bucket |-> "none"]

\* A mutant of Classify: a depth equal to the warning threshold is a warning
ClassifyWarningGE(length, thresholds) ==
    IF "critical" \notin DOMAIN thresholds
    THEN [exc |-> KeyErrorOf("critical"), bucket |-> "none"]
    ELSE IF length > thresholds["critical"]
    THEN [exc |-> NoExc, bucket |-> "critical"]
    ELSE IF "warning" \notin DOMAIN thresholds
    THEN [exc |-> KeyErrorOf("warning"), bucket |-> "none"]
    ELSE IF length >= thresholds["warning"]
    THEN [exc |-> NoExc, bucket |-> "warning"]
    ELSE [exc |-> NoExc, bucket |-> "none"]

\* if length > thresholds['critical'] ... elif length > thresholds['warning']:
\* the list the queue is appended to, or the KeyError of a missing key
Classify(length, thresholds) ==
    IF "critical" \notin DOMAIN thresholds
    THEN [exc |-> KeyErrorOf("critical"), bucket |-> "none"]
    ELSE IF length > thresholds["critical"]
    THEN [exc |-> NoExc, bucket |-> "critical"]
    ELSE IF "warning" \notin DOMAIN thresholds
    THEN [exc |-> KeyErrorOf("warning"), bucket |-> "none"]
    ELSE IF length > thresholds["warning"]
    THEN [exc |-> NoExc, bucket |-> "warning"]
    ELSE [exc |-> NoExc, bucket |-> "none"]

\* stats.errors[bucket].append(queue)
AppendTo(errs, bucket, queue) ==
    IF bucket = "none" THEN errs
    ELSE [errs EXCEPT ![bucket] = Append(errs[bucket], queue)]

\* stats.lengths[queue] = value
Store(d, key, value) ==
    [k \in DOMAIN d \cup {key} |-> IF k = key THEN value ELSE d[k]]

(***************************************************************************)
(* format_status and the status line of run.                               *)
(***************************************************************************)
\* ' '.join('%s(%s)' % (q, stats[q]) for q in errors)
RECURSIVE format_status(_, _)
format_status(errs, stats) ==
    IF errs = <<>> THEN <<>>
    ELSE <<Head(errs), "(">> \o Format(stats[Head(errs)]) \o <<")">>
             \o (IF Len(errs) > 1 THEN <<" ">> ELSE <<>>)
             \o format_status(Tail(errs), stats)

\* A mutant of RunOutcome: the warning list is looked at first
RunOutcomeWarningFirst(errs, stats) ==
    IF errs["warning"] # <<>>
    THEN [line |-> <<"WARNING - ">> \o format_status(errs["warning"], stats)
                       \o <<".">>,
          code |-> 1]
    ELSE IF errs["critical"] # <<>>
    THEN [line |-> <<"CRITICAL - ">> \o format_status(errs["critical"], stats)
                       \o <<".">>,
          code |-> 2]
    ELSE [line |-> <<"OK - all lengths fine.">>, code |-> 0]

\* the if / elif / else of run: the line printed and the code given to sys.exit
RunOutcome(errs, stats) ==
    IF errs["critical"] # <<>>
    THEN [line |-> <<"CRITICAL - ">> \o format_status(errs["critical"], stats)
                       \o <<".">>,
          code |-> 2]
    ELSE IF errs["warning"] # <<>>
    THEN [line |-> <<"WARNING - ">> \o format_status(errs["warning"], stats)
                       \o <<".">>,
          code |-> 1]
    ELSE [line |-> <<"OK - all lengths fine.">>, code |-> 0]

\* 'WARNING - unhandled Exception: %s' % str(e)
UnhandledLine(e) == <<"WARNING - unhandled Exception: ">> \o e.msg

(***************************************************************************)
(* Streams.                                                                *)
(***************************************************************************)
\* A mutant of LoggerStream: the logger writes to standard output
LoggerStreamStdout == "stdout"

\* logging.basicConfig(level=logging.INFO): the handler's stream is sys.stderr
LoggerStream == "stderr"

\* write one line to a stream; what goes to devnull is discarded
Written(io, stream, line) ==
    IF stream = "stdout" THEN [io EXCEPT !.out = Append(@, line)]
    ELSE IF stream = "stderr" THEN [io EXCEPT !.err = Append(@, line)]
    ELSE io

IO == [out |-> out, err |-> err]

\* A mutant of RestoreStdout: the stream is put back only when nothing was
\* raised (the assignment after the loop instead of in the finally clause)
RestoreStdoutOnSuccess(saved, current, exc) ==
    IF exc.type = "None" THEN saved ELSE current

\* finally: sys.stdout = stdout
RestoreStdout(saved, current, exc) == saved

\* A mutant of CaughtByMain: main catches the client's errors only
CaughtClientErrorsOnly(e) == e.type \in {"NetworkError", "HTTPError", "KeyError"}

\* A mutant of CaughtByMain: a bare except, which catches SystemExit too
CaughtByBareExcept(e) == TRUE

\* except Exception as e: SystemExit derives from BaseException only
CaughtByMain(e) == e.type # "SystemExit"

(***************************************************************************)
(* Inputs: configurations, environments, answers of the broker.            *)
(***************************************************************************)
ThresholdKeys == {"warning", "critical"}

\* {warning: int, critical: int}, either key possibly missing
ThresholdMaps == UNION {[S -> 0..MaxThreshold] : S \in SUBSET ThresholdKeys}

QueueMaps == UNION {[S -> ThresholdMaps] : S \in SUBSET QueueNames}

NotLoaded == [mapping |-> FALSE, data |-> EmptyMap]

\* what yaml.load may return for run: a mapping with or without "queues",
\* or a document that is no mapping
RunConfigs ==
    {[mapping |-> TRUE, data |-> [k \in {"queues"} |-> qm]] : qm \in QueueMaps}
        \cup {[mapping |-> TRUE, data |-> EmptyMap],
              [mapping |-> FALSE, data |-> EmptyMap]}

\* what yaml.load(open(config_path)) may do: return a document or raise
LoadOutcomes ==
    {[exc |-> NoExc, value |-> c] : c \in RunConfigs}
        \cup {[exc |-> Exc("YAMLError", <<"could not parse the document">>),
               value |-> NotLoaded]}

EnvOf(debug, user, pass) ==
    [n \in {m \in {"CHECK_QUEUES_DEBUG", "CHECK_RABBITMQ_QUEUES_USERNAME",
                   "CHECK_RABBITMQ_QUEUES_PASSWORD"} :
               \/ m = "CHECK_QUEUES_DEBUG" /\ debug.set
               \/ m = "CHECK_RABBITMQ_QUEUES_USERNAME" /\ user.set
               \/ m = "CHECK_RABBITMQ_QUEUES_PASSWORD" /\ pass.set}
       |-> IF n = "CHECK_QUEUES_DEBUG" THEN debug.val
           ELSE IF n = "CHECK_RABBITMQ_QUEUES_USERNAME" THEN user.val
           ELSE pass.val]

Unset == [set |-> FALSE, val |-> ""]
SetTo(v) == [set |-> TRUE, val |-> v]

RunEnvs ==
    {EnvOf(d, u, Unset) : d \in {Unset, SetTo(""), SetTo("1")},
                          u \in {Unset, SetTo("envuser")}}

HttpStatuses == {401, 404, 500}

\* what client.get_queue_depth(vhost, queue) may do: return an int, return a
\* string (of digits or not), or raise
Responses ==
    {[exc |-> NoExc, value |-> IntVal(d)] : d \in 0..MaxDepth}
        \cup {[exc |-> NoExc, value |-> StrVal(Str(MaxDepth))],
              [exc |-> NoExc, value |-> StrVal(<<"n", "/", "a">>)]}
        \cup {[exc |-> e, value |-> IntVal(0)] :
                 e \in {Exc("NetworkError", <<"NetworkError">>),
                        Exc("KeyError", <<"'messages'">>),
                        Exc("TypeError", <<"unexpected client error">>)}
                          \cup {HTTPError(s) : s \in HttpStatuses}}

(***************************************************************************)
(* The state after the interpreter has started main().                     *)
(***************************************************************************)
Start ==
    /\ pc = "get_config"
    /\ cfg = NotLoaded
    /\ vhost = ""
    /\ queues = EmptyMap
    /\ client = NoClient
    /\ stdout = "unbound"
    /\ temp_stdout = "unbound"
    /\ sys_stdout = "stdout"
    /\ remaining = {}
    /\ lengths = EmptyMap
    /\ errors = [critical |-> <<>>, warning |-> <<>>]
    /\ observed = EmptyMap
    /\ pending = NoExc
    /\ out = <<>>
    /\ err = <<>>
    /\ exitCode = -1
    /\ crashed = FALSE

Init ==
    /\ Start
    /\ pathExists \in BOOLEAN
    /\ env \in RunEnvs

(***************************************************************************)
(* run, line by line.                                                      *)
(***************************************************************************)
\* cfg = get_config(config)
GetConfig ==
    /\ pc = "get_config"
    /\ IF ~pathExists
       THEN LET io == Written(IO, LoggerStream,
                              <<"ERROR:check_rabbitmq_queues:Configuration file ",
                                DEFAULT_CONFIG, " does not exist.">>)
            IN  /\ out' = io.out
                /\ err' = io.err
                /\ pending' = SystemExit(3)
                /\ pc' = "main_handler"
                /\ cfg' = cfg
       ELSE \E l \in LoadOutcomes :
                /\ cfg' = l.value
                /\ pending' = l.exc
                /\ pc' = IF l.exc = NoExc THEN "derive" ELSE "main_handler"
                /\ UNCHANGED <<out, err>>
    /\ UNCHANGED <<pathExists, env, vhost, queues, client, stdout, temp_stdout,
                   sys_stdout, remaining, lengths, errors, observed, exitCode,
                   crashed>>

\* vhost = cfg.get('vhost', DEFAULT_VHOST); queues = cfg.get('queues', {})
Derive ==
    /\ pc = "derive"
    /\ IF cfg.mapping
       THEN /\ vhost' = Get(cfg.data, "vhost", DEFAULT_VHOST)
            /\ queues' = Get(cfg.data, "queues", EmptyMap)
            /\ pc' = "get_client"
            /\ pending' = pending
       ELSE /\ pending' = Exc("AttributeError",
                              <<"'str' object has no attribute 'get'">>)
            /\ pc' = "main_handler"
            /\ UNCHANGED <<vhost, queues>>
    /\ UNCHANGED <<pathExists, env, cfg, client, stdout, temp_stdout, sys_stdout,
                   remaining, lengths, errors, observed, out, err, exitCode,
                   crashed>>

\* client = get_client(cfg)
GetClient ==
    /\ pc = "get_client"
    /\ client' = get_client(cfg.data)
    /\ pc' = "check_lengths"
    /\ UNCHANGED <<pathExists, env, cfg, vhost, queues, stdout, temp_stdout,
                   sys_stdout, remaining, lengths, errors, observed, pending,
                   out, err, exitCode, crashed>>

(***************************************************************************)
(* check_lengths, step by step.                                            *)
(***************************************************************************)
\* stats = Stats(...); stdout = sys.stdout; temp_stdout = open(os.devnull, 'w');
\* sys.stdout = temp_stdout.  open may raise.
EnterCheckLengths ==
    /\ pc = "check_lengths"
    /\ lengths' = EmptyMap
    /\ errors' = [critical |-> <<>>, warning |-> <<>>]
    /\ stdout' = sys_stdout
    /\ \E opened \in BOOLEAN :
          IF opened
          THEN /\ temp_stdout' = "open"
               /\ sys_stdout' = "devnull"
               /\ remaining' = DOMAIN queues
               /\ pc' = IF DOMAIN queues = {} THEN "finally" ELSE "loop"
               /\ pending' = pending
          ELSE /\ pending' = Exc("IOError", <<"cannot open ", "/dev/null">>)
               /\ pc' = "finally"
               /\ UNCHANGED <<temp_stdout, sys_stdout, remaining>>
    /\ UNCHANGED <<pathExists, env, cfg, vhost, queues, client, observed, out,
                   err, exitCode, crashed>>

\* the body of the for loop for queue q when get_queue_depth does r:
\* the exception that leaves the loop (NoExc when none) and the new stats
Visit(errs, lens, thresholds, q, r) ==
    IF r.exc # NoExc
    THEN IF Handled(r.exc)
         THEN [exc     |-> NoExc,
               errors  |-> AppendTo(errs, "warning", q),
               lengths |-> Store(lens, q, StrVal(WarningText(r.exc)))]
         ELSE [exc |-> r.exc, errors |-> errs, lengths |-> lens]
    ELSE LET i == ToInt(r.value)
             c == Classify(i.num, thresholds)
         IN  IF i.exc # NoExc
             THEN [exc |-> i.exc, errors |-> errs, lengths |-> lens]
             ELSE IF c.exc # NoExc
             THEN [exc |-> c.exc, errors |-> errs, lengths |-> lens]
             ELSE [exc     |-> NoExc,
                   errors  |-> AppendTo(errs, c.bucket, q),
                   lengths |-> Store(lens, q, IntVal(i.num))]

\* one iteration of: for queue, thresholds in queues.items().  The client
\* library may write to sys.stdout during the call.
QueryQueue ==
    /\ pc = "loop"
    /\ \E q \in remaining, r \in Responses, noisy \in BOOLEAN :
          LET v  == Visit(errors, lengths, queues[q], q, r)
              io == IF noisy
                    THEN Written(IO, sys_stdout, <<"client library output">>)
                    ELSE IO
          IN  /\ observed' = Store(observed, q, r)
              /\ out' = io.out
              /\ err' = io.err
              /\ errors' = v.errors
              /\ lengths' = v.lengths
              /\ pending' = v.exc
              /\ remaining' = remaining \ {q}
              /\ pc' = IF v.exc # NoExc \/ remaining' = {} THEN "finally"
                       ELSE "loop"
    /\ UNCHANGED <<pathExists, env, cfg, vhost, queues, client, stdout,
                   temp_stdout, sys_stdout, exitCode, crashed>>

\* finally: sys.stdout = stdout; temp_stdout.close().  Then return stats, or
\* the exception goes on to main.  temp_stdout is unbound when open raised.
Finally ==
    /\ pc = "finally"
    /\ sys_stdout' = RestoreStdout(stdout, sys_stdout, pending)
    /\ IF temp_stdout = "unbound"
       THEN /\ pending' = Exc("UnboundLocalError",
                              <<"local variable 'temp_stdout' referenced before assignment">>)
            /\ temp_stdout' = temp_stdout
       ELSE /\ temp_stdout' = "closed"
            /\ pending' = pending
    /\ pc' = IF pending' = NoExc THEN "decide" ELSE "main_handler"
    /\ UNCHANGED <<pathExists, env, cfg, vhost, queues, client, stdout,
                   remaining, lengths, errors, observed, out, err, exitCode,
                   crashed>>

\* stats, errors = check_lengths(...); print the status line; sys.exit(code)
Decide ==
    /\ pc = "decide"
    /\ LET o  == RunOutcome(errors, lengths)
           io == Written(IO, sys_stdout, o.line)
       IN  /\ out' = io.out
           /\ err' = io.err
           /\ pending' = SystemExit(o.code)
    /\ pc' = "main_handler"
    /\ UNCHANGED <<pathExists, env, cfg, vhost, queues, client, stdout,
                   temp_stdout, sys_stdout, remaining, lengths, errors, observed,
                   exitCode, crashed>>

(***************************************************************************)
(* main: what leaves dispatch_command(run).                                *)
(***************************************************************************)
MainHandler ==
    /\ pc = "main_handler"
    /\ IF CaughtByMain(pending)
       THEN LET io1 == Written(IO, sys_stdout, UnhandledLine(pending))
                io2 == IF Truthy(Getenv("CHECK_QUEUES_DEBUG"))
                       THEN Written(io1, "stderr", <<"Traceback">>)
                       ELSE io1
            IN  /\ out' = io2.out
                /\ err' = io2.err
                /\ exitCode' = 1
                /\ crashed' = crashed
       ELSE IF pending.type = "SystemExit"
       THEN /\ exitCode' = pending.code
            /\ UNCHANGED <<out, err, crashed>>
       ELSE LET io == Written(IO, "stderr", <<"Traceback">>)
            IN  /\ out' = io.out
                /\ err' = io.err
                /\ exitCode' = 1
                /\ crashed' = TRUE
    /\ pc' = "exited"
    /\ UNCHANGED <<pathExists, env, cfg, vhost, queues, client, stdout,
                   temp_stdout, sys_stdout, remaining, lengths, errors, observed,
                   pending>>

Next ==
    \/ GetConfig
    \/ Derive
    \/ GetClient
    \/ EnterCheckLengths
    \/ QueryQueue
    \/ Finally
    \/ Decide
    \/ MainHandler

Spec == Init /\ [][Next]_vars

(***************************************************************************)
(* get_client alone, over every combination of environment and config.     *)
(***************************************************************************)
Present(v) == [present |-> TRUE, val |-> v]
Absent == [present |-> FALSE, val |-> ""]

ConfigOf(host, port, user, pass) ==
    [k \in {m \in {"host", "port", "username", "password"} :
               \/ m = "host" /\ host.present
               \/ m = "port" /\ port.present
               \/ m = "username" /\ user.present
               \/ m = "password" /\ pass.present}
       |-> IF k = "host" THEN host.val
           ELSE IF k = "port" THEN port.val
           ELSE IF k = "username" THEN user.val
           ELSE pass.val]

ClientConfigs ==
    {[mapping |-> TRUE, data |-> ConfigOf(h, p, u, w)] :
        h \in {Absent, Present("rabbit.example")},
        p \in {[present |-> FALSE, val |-> 0], [present |-> TRUE, val |-> 5672]},
        u \in {Absent, Present(""), Present("cfguser")},
        w \in {Absent, Present(""), Present("cfgpass")}}

ClientEnvs ==
    {EnvOf(Unset, u, w) : u \in {Unset, SetTo(""), SetTo("envuser")},
                          w \in {Unset, SetTo(""), SetTo("envpass")}}

InitClient ==
    /\ pc = "get_client"
    /\ pathExists = TRUE
    /\ env \in ClientEnvs
    /\ cfg \in ClientConfigs
    /\ vhost = DEFAULT_VHOST
    /\ queues = EmptyMap
    /\ client = NoClient
    /\ stdout = "unbound"
    /\ temp_stdout = "unbound"
    /\ sys_stdout = "stdout"
    /\ remaining = {}
    /\ lengths = EmptyMap
    /\ errors = [critical |-> <<>>, warning |-> <<>>]
    /\ observed = EmptyMap
    /\ pending = NoExc
    /\ out = <<>>
    /\ err = <<>>
    /\ exitCode = -1
    /\ crashed = FALSE

NextClient == GetClient

SpecClient == InitClient /\ [][NextClient]_vars

(***************************************************************************)
(* Vocabulary of the properties.  These read the history (observed) and    *)
(* the configuration, not the operators of the model above.                *)
(***************************************************************************)
Exited == pc = "exited"

Configured == DOMAIN queues

Visited == DOMAIN observed

RangeOf(seq) == {seq[i] : i \in 1..Len(seq)}

\* how many times q is in the list seq
Occurrences(seq, q) == Cardinality({i \in 1..Len(seq) : seq[i] = q})

HandledKinds == {"NetworkError", "HTTPError", "KeyError"}

\* get_queue_depth failed for q with a kind the checker handles
FailedHandled(q) == q \in Visited /\ observed[q].exc.type \in HandledKinds

\* get_queue_depth returned an integer depth for q
ReturnedInt(q) ==
    q \in Visited /\ observed[q].exc = NoExc /\ observed[q].value.isInt

DepthOf(q) == observed[q].value.num

BothThresholds(q) == DOMAIN queues[q] = ThresholdKeys

Exceeds(q, key) == ReturnedInt(q) /\ DepthOf(q) > queues[q][key]

\* check_lengths opened its discarding stream, so the queries were run
StreamOpened == temp_stdout # "unbound"

\* the run of a well-formed configuration in which every call made returned
\* an integer or failed with a handled kind
WellFormedRun ==
    /\ Exited /\ pathExists /\ cfg.mapping /\ StreamOpened
    /\ \A q \in Configured : BothThresholds(q)
    /\ \A q \in Visited : ReturnedInt(q) \/ FailedHandled(q)

SomeCritical == \E q \in Configured : Exceeds(q, "critical")

SomeWarning ==
    \E q \in Configured : FailedHandled(q) \/ Exceeds(q, "warning")

OkLine == <<"OK - all lengths fine.">>

(***************************************************************************)
(* C1: in a run whose configuration file exists, whose thresholds are      *)
(* integers and whose queries each return an integer or fail with a        *)
(* handled kind, the exit code is 2 iff some depth is strictly greater     *)
(* than its critical threshold, 1 iff none is and some queue failed or has *)
(* a depth strictly greater than its warning threshold, and 0 otherwise;   *)
(* inverted pairs included.                                                *)
(***************************************************************************)
C1_ExitCodeByThresholds ==
    WellFormedRun =>
        /\ Visited = Configured
        /\ exitCode = 2 <=> SomeCritical
        /\ exitCode = 1 <=> (~SomeCritical /\ SomeWarning)
        /\ exitCode = 0 <=> (~SomeCritical /\ ~SomeWarning)

\* an inverted pair decides the code, and another depth equals its threshold
C1_Witness ==
    /\ WellFormedRun
    /\ exitCode = 2
    /\ \E q \in Configured :
          /\ queues[q]["warning"] > queues[q]["critical"]
          /\ Exceeds(q, "critical")
    /\ \E q \in Configured :
          ReturnedInt(q) /\ DepthOf(q) = queues[q]["critical"]

(***************************************************************************)
(* C2.                                                                     *)
(***************************************************************************)
\* the checker has seen, for some queue, a depth above the critical threshold
ObservedCritical ==
    \E q \in Visited :
        /\ observed[q].exc = NoExc
        /\ ToInt(observed[q].value).exc = NoExc
        /\ "critical" \in DOMAIN queues[q]
        /\ ToInt(observed[q].value).num > queues[q]["critical"]

\* C2 as claimed: once a depth above its critical threshold has been seen,
\* the run ends with exit code 2 whatever the remaining queues do
C2_Original == (Exited /\ ObservedCritical) => exitCode = 2

\* C2 as amended: once a depth above its critical threshold has been seen,
\* the run ends CRITICAL with exit code 2 whatever the remaining queries
\* return or whichever handled failure they end in; when a later queue
\* raises an error the checker does not handle, the run ends with the
\* unhandled-exception line and exit code 1
C2_CriticalUnlessUnhandled ==
    (Exited /\ ObservedCritical) =>
        IF pending.type = "SystemExit"
        THEN /\ exitCode = 2
             /\ Len(out) = 1
             /\ out[1][1] = "CRITICAL - "
        ELSE /\ exitCode = 1
             /\ out = <<(<<"WARNING - unhandled Exception: ">> \o pending.msg)>>

\* a critical queue, then a queue whose query fails with a handled kind
C2_Witness ==
    /\ Exited /\ ObservedCritical
    /\ exitCode = 2
    /\ \E q \in Visited : FailedHandled(q)

(***************************************************************************)
(* C3.                                                                     *)
(***************************************************************************)
AllSucceeded ==
    /\ Exited /\ pathExists /\ cfg.mapping /\ StreamOpened
    /\ Visited = Configured
    /\ \A q \in Configured : BothThresholds(q) /\ ReturnedInt(q)

\* C3 as claimed: all queries succeed and every depth is at or below its
\* warning threshold => OK line and exit code 0, for any pair of thresholds
C3_Original ==
    (AllSucceeded /\ \A q \in Configured : DepthOf(q) <= queues[q]["warning"])
        => (exitCode = 0 /\ out = <<OkLine>>)

\* C3 as amended: all queries succeed and every depth is at or below both
\* its warning and its critical threshold => OK line and exit code 0
C3_OkWhenBelowBoth ==
    (AllSucceeded /\ \A q \in Configured :
                        /\ DepthOf(q) <= queues[q]["warning"]
                        /\ DepthOf(q) <= queues[q]["critical"])
        => (exitCode = 0 /\ out = <<OkLine>>)

\* two queues, one of them exactly at its warning threshold
C3_Witness ==
    /\ AllSucceeded
    /\ Cardinality(Configured) = 2
    /\ \A q \in Configured : /\ DepthOf(q) <= queues[q]["warning"]
                             /\ DepthOf(q) <= queues[q]["critical"]
    /\ \E q \in Configured : DepthOf(q) = queues[q]["warning"]
    /\ exitCode = 0

(***************************************************************************)
(* C4: a query that fails with a transport failure, an HTTP error or a     *)
(* missing-data error puts its queue in the warning list and never in the  *)
(* critical list, and the loop goes on: when check_lengths returns every   *)
(* configured queue has a recorded value, and every queue whose query      *)
(* succeeded is classified by its own depth and thresholds alone.          *)
(***************************************************************************)
C4_FailureIsWarningAndLoopGoesOn ==
    /\ \A q \in Visited :
          FailedHandled(q) =>
              /\ Occurrences(errors["warning"], q) = 1
              /\ q \notin RangeOf(errors["critical"])
              /\ q \in DOMAIN lengths /\ ~lengths[q].isInt
              \* the failure itself does not end the loop
              /\ (pending = NoExc /\ remaining # {}) => pc = "loop"
    /\ (StreamOpened /\ pc \in {"loop", "finally"}
          /\ \A q \in Visited : FailedHandled(q)) => pending = NoExc
    /\ pc = "decide" =>
          /\ DOMAIN lengths = Configured
          /\ \A q \in Configured :
                ReturnedInt(q) =>
                    /\ lengths[q] = IntVal(DepthOf(q))
                    /\ q \in RangeOf(errors["critical"])
                          <=> DepthOf(q) > queues[q]["critical"]
                    /\ q \in RangeOf(errors["warning"])
                          <=> /\ DepthOf(q) <= queues[q]["critical"]
                              /\ DepthOf(q) > queues[q]["warning"]

\* check_lengths returns after a failed query followed by a critical depth
C4_Witness ==
    /\ pc = "decide"
    /\ Len(errors["warning"]) = 1 /\ Len(errors["critical"]) = 1
    /\ \E q \in Configured : FailedHandled(q) /\ observed[q].exc.type = "KeyError"
    /\ \E q \in Configured : Exceeds(q, "critical")
    /\ lengths[errors["warning"][1]].text = <<"Cannot obtain queue data.">>

(***************************************************************************)
(* C5.                                                                     *)
(***************************************************************************)
\* the cause text by failure kind; tail is what follows the status code
CauseText(e, tail) ==
    CASE e.type = "NetworkError" -> <<"Can not communicate with RabbitMQ.">>
      [] e.type = "KeyError" -> <<"Cannot obtain queue data.">>
      [] e.type = "HTTPError" /\ e.status = 404 -> <<"Queue not found.">>
      [] e.type = "HTTPError" /\ e.status = 401 -> <<"Unauthorized.">>
      [] OTHER -> <<"Unhandled HTTP error, status: ">> \o Str(e.status) \o tail

\* C5 as claimed: the recorded value of a failed query is the cause text of
\* its kind, "Unhandled HTTP error, status: {code}." for any other status
C5_Original ==
    \A q \in Visited :
        FailedHandled(q) =>
            /\ q \in DOMAIN lengths
            /\ lengths[q] = StrVal(CauseText(observed[q].exc, <<".">>))

\* C5 as amended: the same, and the text for any other HTTP status is
\* "Unhandled HTTP error, status: {code}" with no trailing period
C5_CauseTextByKind ==
    \A q \in Visited :
        FailedHandled(q) =>
            /\ q \in DOMAIN lengths
            /\ lengths[q] = StrVal(CauseText(observed[q].exc, <<>>))

\* a 500 and a 404 recorded in the same run
C5_Witness ==
    /\ pc = "decide"
    /\ \E q \in Configured :
          /\ FailedHandled(q) /\ observed[q].exc.status = 500
          /\ lengths[q].text = <<"Unhandled HTTP error, status: ", "5", "0", "0">>
    /\ \E q \in Configured :
          /\ FailedHandled(q) /\ observed[q].exc.status = 404
          /\ lengths[q].text = <<"Queue not found.">>

(***************************************************************************)
(* C6: the run ends with exit code 3 exactly when the configuration path   *)
(* does not exist; main does not turn that exit into code 1, and when the  *)
(* path does not exist no client is built and no queue is queried.         *)
(***************************************************************************)
C6_ExitThreeIffConfigMissing ==
    /\ Exited => (exitCode = 3 <=> ~pathExists)
    /\ ~pathExists => (~client.built /\ Visited = {} /\ cfg = NotLoaded)

C6_Witness == Exited /\ ~pathExists /\ exitCode = 3 /\ ~client.built

(***************************************************************************)
(* C7: an error the checker does not handle per queue is caught in main,   *)
(* reported as "WARNING - unhandled Exception: {message}" and ends the     *)
(* process with exit code 1, whatever CHECK_QUEUES_DEBUG is; every run     *)
(* ends with a code in {0, 1, 2, 3} and never by an uncaught exception.    *)
(***************************************************************************)
C7_UnhandledIsWarningExitOne ==
    Exited =>
        /\ exitCode \in {0, 1, 2, 3}
        /\ ~crashed
        /\ pending.type # "SystemExit" =>
              /\ exitCode = 1
              /\ out = <<(<<"WARNING - unhandled Exception: ">> \o pending.msg)>>

\* a threshold entry without its 'warning' key, with the debug variable set
C7_Witness ==
    /\ Exited
    /\ pending = KeyErrorOf("warning")
    /\ "CHECK_QUEUES_DEBUG" \in DOMAIN env /\ env["CHECK_QUEUES_DEBUG"] = "1"
    /\ err = <<(<<"Traceback">>)>>
    /\ exitCode = 1

(***************************************************************************)
(* C8.                                                                     *)
(***************************************************************************)
EnvSet(name) == name \in DOMAIN env

CredentialAsClaimed(got, name, key, default) ==
    /\ EnvSet(name) => got = env[name]
    /\ (~EnvSet(name) /\ key \in DOMAIN cfg.data) => got = cfg.data[key]
    /\ (~EnvSet(name) /\ key \notin DOMAIN cfg.data) => got = default

CredentialAsAmended(got, name, key, default) ==
    LET given == EnvSet(name) /\ env[name] # ""
    IN  /\ given => got = env[name]
        /\ (~given /\ key \in DOMAIN cfg.data) => got = cfg.data[key]
        /\ (~given /\ key \notin DOMAIN cfg.data) => got = default

\* C8 as claimed: each credential is the environment variable's value
\* whenever the variable is set, the empty string included; else the config
\* value; else 'guest'
C8_Original ==
    client.built =>
        /\ CredentialAsClaimed(client.username, "CHECK_RABBITMQ_QUEUES_USERNAME",
                               "username", "guest")
        /\ CredentialAsClaimed(client.password, "CHECK_RABBITMQ_QUEUES_PASSWORD",
                               "password", "guest")

\* C8 as amended: each credential is the environment variable's value
\* whenever the variable is set to a non-empty string; a variable that is
\* unset or empty gives the config value when the config has the key, and
\* 'guest' when it has not
C8_EnvThenConfigThenDefault ==
    client.built =>
        /\ CredentialAsAmended(client.username, "CHECK_RABBITMQ_QUEUES_USERNAME",
                               "username", "guest")
        /\ CredentialAsAmended(client.password, "CHECK_RABBITMQ_QUEUES_PASSWORD",
                               "password", "guest")

\* the environment gives the user, the config the password, both are given
C8_Witness ==
    /\ client.built
    /\ EnvSet("CHECK_RABBITMQ_QUEUES_USERNAME")
    /\ env["CHECK_RABBITMQ_QUEUES_USERNAME"] = "envuser"
    /\ "username" \in DOMAIN cfg.data /\ cfg.data["username"] = "cfguser"
    /\ EnvSet("CHECK_RABBITMQ_QUEUES_PASSWORD")
    /\ env["CHECK_RABBITMQ_QUEUES_PASSWORD"] = ""
    /\ "password" \in DOMAIN cfg.data /\ cfg.data["password"] = "cfgpass"
    /\ client.username = "envuser" /\ client.password = "cfgpass"

(***************************************************************************)
(* C9: standard output is the discarding stream whenever get_queue_depth   *)
(* is called, it is the original stream again on every way out of          *)
(* check_lengths, nothing the client library writes reaches the original   *)
(* stream, and the final line (main's unhandled-exception line included)   *)
(* is written to the original stream.                                      *)
(***************************************************************************)
C9_StdoutRedirectedAndRestored ==
    /\ pc = "loop" => (sys_stdout = "devnull" /\ temp_stdout = "open")
    /\ pc \in {"decide", "main_handler", "exited"} => sys_stdout = "stdout"
    /\ \A i \in 1..Len(out) : out[i] # <<"client library output">>
    /\ (Exited /\ client.built) =>
          /\ out # <<>>
          /\ out[Len(out)][1] \in {"CRITICAL - ", "WARNING - ", OkLine[1],
                                   "WARNING - unhandled Exception: "}

\* an exception left the loop and main's line reached the original stream
C9_Witness ==
    /\ Exited
    /\ Visited # {}
    /\ pending.type = "ValueError"
    /\ temp_stdout = "closed"
    /\ sys_stdout = "stdout"
    /\ out[1][1] = "WARNING - unhandled Exception: "

(***************************************************************************)
(* C10.                                                                    *)
(***************************************************************************)
\* C10 as claimed: every invocation has written exactly one line to
\* standard output when it exits, the exit with code 3 included
C10_Original == Exited => Len(out) = 1

\* C10 as amended: an invocation that ends with code 0, 1 or 2 has written
\* exactly one line to standard output; one that ends with code 3 has
\* written none there, its diagnostic going to standard error
C10_OneLineExceptConfigMissing ==
    Exited =>
        IF exitCode = 3
        THEN out = <<>> /\ Len(err) = 1
        ELSE Len(out) = 1

C10_Witness == Exited /\ exitCode = 3 /\ out = <<>> /\ Len(err) = 1

====
